---- MODULE Spec2Model ----
(***************************************************************************)
(* Model of templates/antigravity/specify_mcp.py: a FastMCP server that    *)
(* registers two prompt generators, specify and plan, and serves them.     *)
(*                                                                         *)
(* A Python string is the record [type |-> "str", val |-> <<characters>>], *)
(* val being a sequence of one-character strings.  A value of another      *)
(* type carries in val the text that str() gives for it.                   *)
(***************************************************************************)
EXTENDS Integers, Sequences, FiniteSets

VARIABLES
    pc,           \* the statement of the module the interpreter executes next
    dunder_name,  \* __name__: "__main__" when the file is run directly
    mcp,          \* the module global mcp, the FastMCP server object
    cpc,          \* cpc[c]: where the request of caller c is
    req,          \* req[c]: the request caller c sent
    frame,        \* frame[i]: the locals of a generator call in progress
    ret,          \* ret[c]: what the generator call made for c ended with
    calls,        \* calls[c]: the generator calls made for c's request
    overlap,      \* overlap[c]: another call was in progress during c's
    log,          \* the requests answered so far, with their responses
    arg,          \* SpecPure: the argument strings under test
    res           \* SpecPure: what the generators returned for them

vars == <<pc, dunder_name, mcp, cpc, req, frame, ret, calls, overlap, log,
          arg, res>>
serverVars == <<pc, dunder_name, mcp, cpc, req, frame, ret, calls, overlap, log>>
pureVars == <<arg, res>>

\* ------------------------------------------------------------------ bounds

\* Longest argument string the generators are applied to in SpecPure.
MaxLen == 2
\* Number of callers that may have a request in progress at the same time.
NumCallers == 2
\* Total number of requests the callers issue in one run of the server.
MaxRequests == 3

\* Characters the argument strings are made of: an ordinary letter, the
\* character the templates' suffixes start with, the two braces that are
\* special inside an f-string or a str.format template, and a newline.
Chars == {"a", ".", "{", "}", "\n"}

RECURSIVE SeqsUpTo(_)
SeqsUpTo(n) ==
    IF n = 0 THEN {<< >>}
    ELSE LET shorter == SeqsUpTo(n - 1)
         IN  shorter \cup {Append(s, ch) : s \in {t \in shorter : Len(t) = n - 1},
                                           ch \in Chars}

Str(chars) == [type |-> "str", val |-> chars]

\* Every Python string of at most MaxLen characters over Chars.
Strings == {Str(s) : s \in SeqsUpTo(MaxLen)}

\* ------------------------------------------------------- the two generators

\* format(value, "") as the f-string replacement field {name} applies it:
\* str.__format__ with an empty format spec returns the string itself, and
\* object.__format__ returns str(value).
FormatValue(value) == value.val

\* BUILD_STRING: the literal parts of an f-string and its formatted values,
\* concatenated left to right.  The replacement fields were found when the
\* source was compiled, so the characters of a formatted value are copied
\* and never parsed again.
RECURSIVE BuildString(_, _)
BuildString(parts, locals) ==
    IF parts = << >> THEN << >>
    ELSE LET p == Head(parts)
         IN  (IF p.kind = "Constant" THEN p.value
              ELSE FormatValue(locals[p.value]))
             \o BuildString(Tail(parts), locals)

\* f"Role: AI Architect. Goal: {goal}. Create a SPEC.md file."
SpecifyTemplate ==
    << [kind |-> "Constant", value |->
          <<"R","o","l","e",":"," ","A","I"," ","A","r","c","h","i","t","e","c",
            "t","."," ","G","o","a","l",":"," ">>],
       [kind |-> "FormattedValue", value |-> "goal"],
       [kind |-> "Constant", value |->
          <<"."," ","C","r","e","a","t","e"," ","a"," ","S","P","E","C",".","m",
            "d"," ","f","i","l","e",".">>] >>

\* f"Read this spec: {spec_content}. Create a PLAN.md."
PlanTemplate ==
    << [kind |-> "Constant", value |->
          <<"R","e","a","d"," ","t","h","i","s"," ","s","p","e","c",":"," ">>],
       [kind |-> "FormattedValue", value |-> "spec_content"],
       [kind |-> "Constant", value |->
          <<"."," ","C","r","e","a","t","e"," ","a"," ","P","L","A","N",".","m",
            "d",".">>] >>

\* Python's None.
None == [type |-> "NoneType", val |-> <<"N","o","n","e">>]

\* What a call ends with: a returned value, or an exception.
Return(value) == [kind |-> "return", value |-> value, exc |-> "-"]
Raise(exc) == [kind |-> "raise", value |-> None, exc |-> exc]

\* The character sequence with every brace doubled, as str.format escapes.
RECURSIVE EscapeBraces(_)
EscapeBraces(chars) ==
    IF chars = << >> THEN << >>
    ELSE (IF Head(chars) \in {"{", "}"} THEN <<Head(chars), Head(chars)>>
          ELSE <<Head(chars)>>) \o EscapeBraces(Tail(chars))

\* The character sequence without its leading and trailing newlines, as
\* str.strip() leaves it.
RECURSIVE Strip(_)
Strip(chars) ==
    IF chars = << >> THEN << >>
    ELSE IF Head(chars) = "\n" THEN Strip(Tail(chars))
    ELSE IF chars[Len(chars)] = "\n" THEN Strip(SubSeq(chars, 1, Len(chars) - 1))
    ELSE chars

HasBrace(chars) == \E i \in 1 .. Len(chars) : chars[i] \in {"{", "}"}

\* specify with the goal's braces escaped before it is interpolated.
specify_escaped(goal) ==
    Return(Str(BuildString(SpecifyTemplate,
                           [goal |-> Str(EscapeBraces(goal.val))])))

\* specify with the goal concatenated into a template that str.format then
\* parses: a brace in the goal is read as a replacement field and raises.
specify_str_format(goal) ==
    IF HasBrace(goal.val) THEN Raise("ValueError")
    ELSE Return(Str(BuildString(SpecifyTemplate, [goal |-> goal])))

\* The goals of the specify calls already answered, in order.
RECURSIVE EarlierGoals(_)
EarlierGoals(entries) ==
    IF entries = << >> THEN << >>
    ELSE (IF Head(entries).req.name = "specify" /\ Head(entries).resp.kind = "ok"
          THEN Head(entries).req.arg.val ELSE << >>)
         \o EarlierGoals(Tail(entries))

\* specify with the goals kept in a list that outlives the call (a mutable
\* default argument): every earlier goal is interpolated before this one.
specify_accumulating(goal) ==
    Return(Str(BuildString(SpecifyTemplate,
                           [goal |-> Str(EarlierGoals(log) \o goal.val)])))

\* def specify(goal: str)
specify(goal) == Return(Str(BuildString(SpecifyTemplate, [goal |-> goal])))

\* plan with the spec text stripped before it is interpolated.
plan_stripped(spec_content) ==
    Return(Str(BuildString(PlanTemplate,
                           [spec_content |-> Str(Strip(spec_content.val))])))

\* plan with the f-string of specify pasted into it.
plan_pasted(spec_content) ==
    Return(Str(BuildString(SpecifyTemplate, [goal |-> spec_content])))

\* def plan(spec_content: str)
plan(spec_content) ==
    Return(Str(BuildString(PlanTemplate, [spec_content |-> spec_content])))

\* ------------------------------------------------------ the module's script

Callers == 1 .. NumCallers

\* The function objects the two def statements create: __name__, __doc__,
\* the one parameter and its annotation.
SpecifyDef ==
    [name |-> "specify", doc |-> "Start the Spec-Driven Development process.",
     param |-> "goal", annotation |-> "str"]
PlanDef ==
    [name |-> "plan", doc |-> "Generate a plan from the spec.",
     param |-> "spec_content", annotation |-> "str"]

\* mcp before line 2 has bound it.
Unbound == [bound |-> FALSE, name |-> "", prompts |-> [n \in {} |-> SpecifyDef]]

\* FastMCP("Spec-Kit"): a server with no prompt registered yet.
FastMCP(name) == [bound |-> TRUE, name |-> name, prompts |-> [n \in {} |-> SpecifyDef]]

\* The descriptor the decorator mcp.prompt() stores for the function f: the
\* callable, its docstring as the description, its parameter and the type
\* the parameter is annotated with.
Descriptor(f) ==
    [fn |-> f.name, description |-> f.doc, param |-> f.param,
     annotation |-> f.annotation]

\* @mcp.prompt() applied to f: f is registered under its own name.
AddPrompt(server, f) ==
    [server EXCEPT !.prompts =
        [n \in DOMAIN server.prompts \cup {f.name} |->
            IF n = f.name THEN Descriptor(f) ELSE server.prompts[n]]]

\* What a caller that lists the prompts is shown.
ListPrompts(server) ==
    {[name |-> n, description |-> server.prompts[n].description] :
        n \in DOMAIN server.prompts}

\* line 1: from mcp.server.fastmcp import FastMCP
Import ==
    /\ pc = "import"
    /\ pc' = "construct"
    /\ UNCHANGED <<dunder_name, mcp, cpc, req, frame, ret, calls, overlap, log>>
    /\ UNCHANGED pureVars

\* line 2: mcp = FastMCP("Spec-Kit")
Construct ==
    /\ pc = "construct"
    /\ mcp' = FastMCP("Spec-Kit")
    /\ pc' = "def_specify"
    /\ UNCHANGED <<dunder_name, cpc, req, frame, ret, calls, overlap, log>>
    /\ UNCHANGED pureVars

\* lines 4-7: the decorated definition of specify
DefSpecify ==
    /\ pc = "def_specify"
    /\ mcp' = AddPrompt(mcp, SpecifyDef)
    /\ pc' = "def_plan"
    /\ UNCHANGED <<dunder_name, cpc, req, frame, ret, calls, overlap, log>>
    /\ UNCHANGED pureVars

\* lines 9-12: the decorated definition of plan
DefPlan ==
    /\ pc = "def_plan"
    /\ mcp' = AddPrompt(mcp, PlanDef)
    /\ pc' = "main_guard"
    /\ UNCHANGED <<dunder_name, cpc, req, frame, ret, calls, overlap, log>>
    /\ UNCHANGED pureVars

\* mcp.run() placed above the definition of plan: the serve loop starts
\* with plan not registered yet, and never returns to register it.
Run_early ==
    /\ pc = "def_plan"
    /\ dunder_name = "__main__"
    /\ pc' = "serving"
    /\ UNCHANGED <<dunder_name, mcp, cpc, req, frame, ret, calls, overlap, log>>
    /\ UNCHANGED pureVars

\* lines 14-15, run directly: mcp.run() starts the serve loop
Run ==
    /\ pc = "main_guard"
    /\ dunder_name = "__main__"
    /\ pc' = "serving"
    /\ UNCHANGED <<dunder_name, mcp, cpc, req, frame, ret, calls, overlap, log>>
    /\ UNCHANGED pureVars

\* line 14, imported by another module: the guard is false and the module ends
Imported ==
    /\ pc = "main_guard"
    /\ dunder_name # "__main__"
    /\ pc' = "imported"
    /\ UNCHANGED <<dunder_name, mcp, cpc, req, frame, ret, calls, overlap, log>>
    /\ UNCHANGED pureVars

\* --------------------------------------------------- requests and responses

\* An argument that is not a string.
NonString == [type |-> "int", val |-> <<"7">>]

\* The argument strings the callers send: the empty string, and braces
\* on two lines.
SampleArgs == {Str(<< >>), Str(<<"{", "\n", "}">>)}

\* The requests the callers send: well formed ones, one that names no
\* registered generator, and ones whose argument is not a string.
Requests ==
    [name : {"specify", "plan"}, arg : SampleArgs]
    \cup [name : {"unknown"}, arg : {Str(<< >>)}]
    \cup [name : {"specify", "plan"}, arg : {NonString}]

NoRequest == [name |-> "-", arg |-> None]
NoFrame == [fn |-> "-", locals |-> [n \in {} |-> None]]
NoReturn == [kind |-> "-", value |-> None, exc |-> "-"]

Ok(text) == [kind |-> "ok", text |-> text]
Error == [kind |-> "error", text |-> << >>]

\* The number of requests sent so far.
Issued == Len(log) + Cardinality({c \in Callers : cpc[c] # "idle"})

\* A generator call made for caller c is in progress.
InCall(c) == cpc[c] = "called"

\* A dispatcher that routes whatever names a registered prompt, without
\* looking at the argument's type.
Accepts_any_type(server, r) == r.name \in DOMAIN server.prompts

\* The dispatcher routes the request r to a generator: r names a registered
\* prompt and its argument has the type the parameter is annotated with.
Accepts(server, r) ==
    /\ r.name \in DOMAIN server.prompts
    /\ r.arg.type = server.prompts[r.name].annotation

\* The argument kept in one module-level variable instead of a parameter.
Slot_shared(c) == NumCallers

\* Where the locals of the generator call made for caller c live: each call
\* has a frame of its own.
Slot(c) == c

\* A caller sends the request r.
Send(c, r) ==
    /\ cpc[c] = "idle"
    /\ Issued < MaxRequests
    /\ cpc' = [cpc EXCEPT ![c] = "sent"]
    /\ req' = [req EXCEPT ![c] = r]
    /\ UNCHANGED <<pc, dunder_name, mcp, frame, ret, calls, overlap, log>>
    /\ UNCHANGED pureVars

\* The serve loop rejects a request it cannot route.
Reject(c) ==
    /\ pc = "serving"
    /\ cpc[c] = "sent"
    /\ ~Accepts(mcp, req[c])
    /\ log' = Append(log, [req |-> req[c], calls |-> calls[c],
                           overlapped |-> overlap[c], resp |-> Error])
    /\ cpc' = [cpc EXCEPT ![c] = "idle"]
    /\ req' = [req EXCEPT ![c] = NoRequest]
    /\ UNCHANGED <<pc, dunder_name, mcp, frame, ret, calls, overlap>>
    /\ UNCHANGED pureVars

\* The serve loop calls the generator registered under the request's name,
\* its argument bound to the generator's parameter.
Invoke(c) ==
    /\ pc = "serving"
    /\ cpc[c] = "sent"
    /\ Accepts(mcp, req[c])
    /\ LET d == mcp.prompts[req[c].name]
       IN  frame' = [frame EXCEPT ![Slot(c)] =
                        [fn |-> d.fn, locals |-> [n \in {d.param} |-> req[c].arg]]]
    /\ cpc' = [cpc EXCEPT ![c] = "called"]
    /\ overlap' = [o \in Callers |->
                      IF o = c THEN \E x \in Callers \ {c} : InCall(x)
                      ELSE overlap[o] \/ InCall(o)]
    /\ UNCHANGED <<pc, dunder_name, mcp, req, ret, calls, log>>
    /\ UNCHANGED pureVars

\* specify registering a prompt of its own each time it is called.
Specify_registering(c) ==
    /\ cpc[c] = "called"
    /\ frame[Slot(c)].fn = "specify"
    /\ LET goal == frame[Slot(c)].locals["goal"]
           out == specify(goal)
       IN  /\ ret' = [ret EXCEPT ![c] = out]
           /\ calls' = [calls EXCEPT ![c] =
                           Append(@, [fn |-> "specify", arg |-> goal, out |-> out])]
    /\ mcp' = AddPrompt(mcp, [SpecifyDef EXCEPT !.name = "last_goal"])
    /\ frame' = [frame EXCEPT ![Slot(c)] = NoFrame]
    /\ cpc' = [cpc EXCEPT ![c] = "returned"]
    /\ UNCHANGED <<pc, dunder_name, req, overlap, log>>
    /\ UNCHANGED pureVars

\* lines 5-7: the body of specify runs in the frame of the call made for c
Specify(c) ==
    /\ cpc[c] = "called"
    /\ frame[Slot(c)].fn = "specify"
    /\ LET goal == frame[Slot(c)].locals["goal"]
           out == specify(goal)
       IN  /\ ret' = [ret EXCEPT ![c] = out]
           /\ calls' = [calls EXCEPT ![c] =
                           Append(@, [fn |-> "specify", arg |-> goal, out |-> out])]
    /\ frame' = [frame EXCEPT ![Slot(c)] = NoFrame]
    /\ cpc' = [cpc EXCEPT ![c] = "returned"]
    /\ UNCHANGED <<pc, dunder_name, mcp, req, overlap, log>>
    /\ UNCHANGED pureVars

\* plan written as a call of specify: return specify(spec_content).
Plan_delegating(c) ==
    /\ cpc[c] = "called"
    /\ frame[Slot(c)].fn = "plan"
    /\ LET spec_content == frame[Slot(c)].locals["spec_content"]
           out == specify(spec_content)
       IN  /\ ret' = [ret EXCEPT ![c] = out]
           /\ calls' = [calls EXCEPT ![c] =
                           @ \o << [fn |-> "plan", arg |-> spec_content, out |-> out],
                                   [fn |-> "specify", arg |-> spec_content, out |-> out] >>]
    /\ frame' = [frame EXCEPT ![Slot(c)] = NoFrame]
    /\ cpc' = [cpc EXCEPT ![c] = "returned"]
    /\ UNCHANGED <<pc, dunder_name, mcp, req, overlap, log>>
    /\ UNCHANGED pureVars

\* lines 10-12: the body of plan runs in the frame of the call made for c
Plan(c) ==
    /\ cpc[c] = "called"
    /\ frame[Slot(c)].fn = "plan"
    /\ LET spec_content == frame[Slot(c)].locals["spec_content"]
           out == plan(spec_content)
       IN  /\ ret' = [ret EXCEPT ![c] = out]
           /\ calls' = [calls EXCEPT ![c] =
                           Append(@, [fn |-> "plan", arg |-> spec_content, out |-> out])]
    /\ frame' = [frame EXCEPT ![Slot(c)] = NoFrame]
    /\ cpc' = [cpc EXCEPT ![c] = "returned"]
    /\ UNCHANGED <<pc, dunder_name, mcp, req, overlap, log>>
    /\ UNCHANGED pureVars

\* The serve loop relays what the generator call ended with: the returned
\* string as the response's text, an exception as an error.
Relay(c) ==
    /\ pc = "serving"
    /\ cpc[c] = "returned"
    /\ LET resp == IF ret[c].kind = "return" /\ ret[c].value.type = "str"
                   THEN Ok(ret[c].value.val) ELSE Error
       IN  log' = Append(log, [req |-> req[c], calls |-> calls[c],
                               overlapped |-> overlap[c], resp |-> resp])
    /\ cpc' = [cpc EXCEPT ![c] = "idle"]
    /\ req' = [req EXCEPT ![c] = NoRequest]
    /\ ret' = [ret EXCEPT ![c] = NoReturn]
    /\ calls' = [calls EXCEPT ![c] = << >>]
    /\ overlap' = [overlap EXCEPT ![c] = FALSE]
    /\ UNCHANGED <<pc, dunder_name, mcp, frame>>
    /\ UNCHANGED pureVars

\* ------------------------------------------------------------ specifications

PureSlots == {"x", "y"}
NoResult == [fn |-> "-", out |-> NoReturn]

InitServer ==
    /\ pc = "import"
    /\ mcp = Unbound
    /\ cpc = [c \in Callers |-> "idle"]
    /\ req = [c \in Callers |-> NoRequest]
    /\ frame = [c \in Callers |-> NoFrame]
    /\ ret = [c \in Callers |-> NoReturn]
    /\ calls = [c \in Callers |-> << >>]
    /\ overlap = [c \in Callers |-> FALSE]
    /\ log = << >>

\* The server: the file is run directly or imported, and callers send
\* requests to it.
Init ==
    /\ InitServer
    /\ dunder_name \in {"__main__", "specify_mcp"}
    /\ arg = [k \in PureSlots |-> Str(<< >>)]
    /\ res = [k \in PureSlots |-> NoResult]

Next ==
    \/ Import
    \/ Construct
    \/ DefSpecify
    \/ DefPlan
    \/ Run
    \/ Imported
    \/ \E c \in Callers, r \in Requests : Send(c, r)
    \/ \E c \in Callers : Reject(c)
    \/ \E c \in Callers : Invoke(c)
    \/ \E c \in Callers : Specify(c)
    \/ \E c \in Callers : Plan(c)
    \/ \E c \in Callers : Relay(c)

Spec == Init /\ [][Next]_vars

\* The generators alone, applied to every pair of strings of Strings.
CallSpecify(k) ==
    /\ res' = [res EXCEPT ![k] = [fn |-> "specify", out |-> specify(arg[k])]]
    /\ UNCHANGED arg
    /\ UNCHANGED serverVars

CallPlan(k) ==
    /\ res' = [res EXCEPT ![k] = [fn |-> "plan", out |-> plan(arg[k])]]
    /\ UNCHANGED arg
    /\ UNCHANGED serverVars

InitPure ==
    /\ InitServer
    /\ dunder_name = "specify_mcp"
    /\ arg \in [PureSlots -> Strings]
    /\ res = [k \in PureSlots |-> NoResult]

NextPure ==
    \/ \E k \in PureSlots : CallSpecify(k)
    \/ \E k \in PureSlots : CallPlan(k)

SpecPure == InitPure /\ [][NextPure]_vars

\* ------------------------------------------------------------------ claims

\* The literal texts the specification gives for the two templates.
SpecTextSpecifyPrefix ==
    <<"R","o","l","e",":"," ","A","I"," ","A","r","c","h","i","t","e","c",
      "t","."," ","G","o","a","l",":"," ">>
SpecTextSpecifySuffix ==
    <<"."," ","C","r","e","a","t","e"," ","a"," ","S","P","E","C",".","m",
      "d"," ","f","i","l","e",".">>
SpecTextPlanPrefix ==
    <<"R","e","a","d"," ","t","h","i","s"," ","s","p","e","c",":"," ">>
SpecTextPlanSuffix ==
    <<"."," ","C","r","e","a","t","e"," ","a"," ","P","L","A","N",".","m",
      "d",".">>

\* out is a returned string made of exactly prefix, then g, then suffix:
\* the same length, and the same character at every position.
IsExactly(out, prefix, g, suffix) ==
    /\ out.kind = "return"
    /\ out.value.type = "str"
    /\ LET text == out.value.val
       IN  /\ Len(text) = Len(prefix) + Len(g) + Len(suffix)
           /\ \A i \in 1 .. Len(prefix) : text[i] = prefix[i]
           /\ \A i \in 1 .. Len(g) : text[Len(prefix) + i] = g[i]
           /\ \A i \in 1 .. Len(suffix) : text[Len(prefix) + Len(g) + i] = suffix[i]

\* C1: for every string g, the empty string and strings with braces or
\* newlines included, specify(g) is "Role: AI Architect. Goal: ", then g
\* unchanged, then ". Create a SPEC.md file.", and nothing else.
C1_SpecifyExact ==
    \A k \in PureSlots :
        res[k].fn = "specify" =>
            IsExactly(res[k].out, SpecTextSpecifyPrefix, arg[k].val,
                      SpecTextSpecifySuffix)

\* specify has been applied to the empty string and to a string made of a
\* brace and a newline.
C1_Witness ==
    /\ res["x"].fn = "specify" /\ arg["x"].val = << >>
    /\ res["y"].fn = "specify" /\ arg["y"].val = <<"{", "\n">>
    /\ Len(res["y"].out.value.val) = Len(res["x"].out.value.val) + Len(arg["y"].val)

\* C2: for every string s, plan(s) is "Read this spec: ", then s unchanged,
\* then ". Create a PLAN.md.", and nothing else.
C2_PlanExact ==
    \A k \in PureSlots :
        res[k].fn = "plan" =>
            IsExactly(res[k].out, SpecTextPlanPrefix, arg[k].val,
                      SpecTextPlanSuffix)

\* plan has been applied to a string that starts with a newline and to one
\* that ends with a closing brace.
C2_Witness ==
    /\ res["x"].fn = "plan" /\ arg["x"].val = <<"\n", "a">>
    /\ res["y"].fn = "plan" /\ arg["y"].val = <<".", "}">>
    /\ res["x"].out.value.val # res["y"].out.value.val

\* C10: equal responses come from the same generator applied to the same
\* string: each generator is injective, and no string is a response of both.
C10_ResponsesIdentifyRequest ==
    \A k1, k2 \in PureSlots :
        /\ res[k1].fn # "-"
        /\ res[k2].fn # "-"
        /\ res[k1].out = res[k2].out
        => /\ res[k1].fn = res[k2].fn
           /\ arg[k1] = arg[k2]

\* Both generators have been applied to the same string, one of whose
\* characters is the one the suffixes start with.
C10_Witness ==
    /\ res["x"].fn = "specify"
    /\ res["y"].fn = "plan"
    /\ arg["x"] = arg["y"]
    /\ arg["x"].val = <<".", "a">>
    /\ res["x"].out.kind = "return"
    /\ res["y"].out.kind = "return"

\* A request that names specify or plan and supplies one string.
WellFormed(r) == r.name \in {"specify", "plan"} /\ r.arg.type = "str"

\* A generator call made for caller c has started and is not relayed yet.
Reached(c) == cpc[c] \in {"called", "returned"}

\* C3: a request whose generator name is not registered, or whose argument
\* is not a string, is answered with an error, and neither specify nor plan
\* is called for it.
C3_MalformedRejected ==
    /\ \A i \in 1 .. Len(log) :
          ~WellFormed(log[i].req) =>
              /\ log[i].resp.kind = "error"
              /\ log[i].calls = << >>
    /\ \A c \in Callers :
          Reached(c) \/ calls[c] # << >> => WellFormed(req[c])

\* A request naming "unknown" and a request with a non-string argument have
\* both been answered.
C3_Witness ==
    /\ \E i \in 1 .. Len(log) : log[i].req.name = "unknown"
    /\ \E i \in 1 .. Len(log) :
          log[i].req.name \in {"specify", "plan"} /\ log[i].req.arg.type # "str"

\* C4: every well-formed request succeeds, whatever string it carries and
\* whatever requests came before it: the generator returns a string, and the
\* response is that string and not an error.
C4_WellFormedSucceeds ==
    /\ \A i \in 1 .. Len(log) :
          WellFormed(log[i].req) => log[i].resp.kind = "ok"
    /\ \A c \in Callers :
          cpc[c] = "returned" /\ WellFormed(req[c]) =>
              ret[c].kind = "return" /\ ret[c].value.type = "str"

\* After a rejected request, a well-formed request carrying braces has been
\* answered.
C4_Witness ==
    \E i, j \in 1 .. Len(log) :
        /\ i < j
        /\ log[i].resp.kind = "error"
        /\ WellFormed(log[j].req)
        /\ log[j].req.arg.val = <<"{", "\n", "}">>
        /\ log[j].resp.kind = "ok"

\* What a caller must be able to discover: both names, each with its
\* one-line description.
BothDiscoverable ==
    ListPrompts(mcp) =
        {[name |-> "specify",
          description |-> "Start the Spec-Driven Development process."],
         [name |-> "plan", description |-> "Generate a plan from the spec."]}

\* C5: whenever the serve loop can accept a request, and whenever a request
\* has been routed or answered, both generators are registered under the
\* names specify and plan with their descriptions.
C5_RegisteredBeforeServing ==
    (\/ pc = "serving"
     \/ log # << >>
     \/ \E c \in Callers : Reached(c))
    => BothDiscoverable

\* The serve loop has routed a request that was sent to it.
C5_Witness ==
    /\ pc = "serving"
    /\ \E c \in Callers : cpc[c] = "called" /\ req[c].name = "plan"

Alone(r) == IF r.name = "specify" THEN specify(r.arg) ELSE plan(r.arg)

\* C7: in every interleaving, the calls in progress have frames of their
\* own, each holding only its own request's argument, and a call that ran
\* while another was in progress ends with what it would end with alone.
C7_ConcurrentCallsIndependent ==
    /\ \A c, d \in Callers : InCall(c) /\ InCall(d) /\ c # d => Slot(c) # Slot(d)
    /\ \A c \in Callers :
          InCall(c) =>
              /\ DOMAIN frame[Slot(c)].locals = {mcp.prompts[req[c].name].param}
              /\ \A n \in DOMAIN frame[Slot(c)].locals :
                    frame[Slot(c)].locals[n] = req[c].arg
    /\ \A c \in Callers : cpc[c] = "returned" => ret[c] = Alone(req[c])
    /\ \A i \in 1 .. Len(log) :
          log[i].overlapped /\ WellFormed(log[i].req) =>
              log[i].resp = Ok(Alone(log[i].req).value.val)

\* Two calls of the same generator with different arguments were in
\* progress together, and one of them has been answered.
C7_Witness ==
    /\ \E i \in 1 .. Len(log) : log[i].overlapped /\ log[i].resp.kind = "ok"
    /\ \E c \in Callers :
          /\ cpc[c] = "returned"
          /\ overlap[c]
          /\ \E i \in 1 .. Len(log) :
                /\ log[i].overlapped
                /\ log[i].req.name = req[c].name
                /\ log[i].req.arg # req[c].arg

\* C8: a request answered with a string caused exactly one generator call:
\* of the generator it names, with its argument, and the string relayed is
\* the string that call returned.  No request in progress has caused more
\* than one call.
C8_DispatchOneToOne ==
    /\ \A i \in 1 .. Len(log) :
          log[i].resp.kind = "ok" =>
              /\ Len(log[i].calls) = 1
              /\ log[i].calls[1].fn = log[i].req.name
              /\ log[i].calls[1].arg = log[i].req.arg
              /\ log[i].calls[1].out = Return(Str(log[i].resp.text))
    /\ \A c \in Callers :
          /\ Len(calls[c]) <= 1
          /\ calls[c] # << >> => calls[c][1].fn = req[c].name

\* A specify request and a plan request with the same argument have both
\* been answered.
C8_Witness ==
    \E i, j \in 1 .. Len(log) :
        /\ log[i].req.name = "specify"
        /\ log[j].req.name = "plan"
        /\ log[i].req.arg = log[j].req.arg
        /\ log[i].resp.kind = "ok"
        /\ log[j].resp.kind = "ok"

\* The registry as the module's two decorated definitions leave it.
RegistryAtStart ==
    [n \in {"specify", "plan"} |->
        IF n = "specify" THEN Descriptor(SpecifyDef) ELSE Descriptor(PlanDef)]

\* C9: once the serve loop has started no step changes the registry, and
\* it holds exactly the entries specify and plan; mcp is bound once, and
\* never again.
C9_RegistryFrozen ==
    [][/\ pc = "serving" => mcp' = mcp /\ mcp'.prompts = RegistryAtStart
       /\ mcp.bound => mcp'.bound /\ mcp'.name = mcp.name]_vars

\* The serve loop has answered an accepted and a rejected request.
C9_Witness ==
    /\ pc = "serving"
    /\ \E i \in 1 .. Len(log) : log[i].resp.kind = "ok" /\ log[i].req.name = "specify"
    /\ \E i \in 1 .. Len(log) : log[i].resp.kind = "error"
    /\ mcp.prompts = RegistryAtStart

====
